---- MODULE Spec2Model ----
(***************************************************************************)
(* A model of the numeric core of GalMag / GMF tool:                       *)
(*   - core/disk.py: the disk dynamo field, its normalization cache        *)
(*     B_norm and the module-level lock around the numerical integration;  *)
(*   - galmag/Grid.py: the Grid object and its lazily generated            *)
(*     coordinate dictionary;                                              *)
(*   - gmf_tool/B_generators/halo_free_decay_modes.py: get_mode.           *)
(*                                                                         *)
(* Real numbers of the disk field are kept in fixed point: field values    *)
(* and the special functions in tenths, the radius r in halves (ri = 2r)   *)
(* and the height z in halves (zi = 2z).  The special functions are given  *)
(* by their values at the sample points, rounded to a tenth.               *)
(***************************************************************************)
EXTENDS Integers, Sequences, FiniteSets, TLC

(***************************************************************************)
(* Bounds of the model.                                                    *)
(***************************************************************************)
NThreads == 2       \* threads calling the disk evaluator
MaxCalls == 2       \* calls of get_B_disk_cyl_component over all threads
NModes   == 2       \* largest number of coefficients in Cn_d
MaxRes   == 2       \* largest resolution of a Grid along an axis
MaxNMode == 6       \* n_mode of get_mode ranges over -MaxNMode..MaxNMode

Threads == 1..NThreads
NoThread == 0

(***************************************************************************)
(* State.                                                                  *)
(***************************************************************************)
\* core/disk.py: the cache, the lock and the threads in get_B_disk_cyl_component
VARIABLES
    B_norm,      \* disk.py 32: the module-level dictionary kn -> factor
    lock,        \* disk.py 24: NoThread when free, else the thread that acquired it
    pc,          \* per thread: where it is in get_B_disk_cyl_component
    args,        \* per thread: the arguments (r, phi, z, kn, p) of its call
    tmp,         \* per thread: the integral computed by nquad (disk.py 85)
    reads,       \* per thread: the values of B_norm[kn] read at disk.py 108
    ret,         \* per thread: what the call returned or raised
    ncalls,      \* calls started so far
    nquadCalls,  \* per kn: how often the integration has been entered
    cachedAtCall \* per thread: whether kn was in B_norm when the call started

diskVars == <<B_norm, lock, pc, args, tmp, reads, ret, ncalls, nquadCalls,
              cachedAtCall>>

threadVars == <<pc, args, tmp, reads, ret, ncalls, cachedAtCall>>

\* one evaluation of the integrand
VARIABLES
    ig_args,     \* the arguments (r, phi, z, kn, p) the integrand is called with
    ig_val       \* what the call returned or raised

intVars == <<ig_args, ig_val>>

\* calls of get_B_disk_cyl and get_B_disk
VARIABLES
    fld_call,    \* the last call: entry point, coordinate arrays, p
    fld_ret      \* what it returned or raised, or "blocked" (it never returns)

fldVars == <<fld_call, fld_ret>>

\* a Grid object
VARIABLES
    grid,        \* the Grid object: box, resolution, grid_type, _coordinates
    gen_count,   \* how often _generate_coordinates has produced the arrays of this object
    g_ret        \* what the last property access returned or raised

gridVars == <<grid, gen_count, g_ret>>

\* calls of get_mode
VARIABLES
    h_call,      \* the arguments (r, theta, phi, n_mode, symmetric) of get_mode
    h_ret,       \* what the call returned or raised
    h_evals      \* the mode functions the call has evaluated, in order

haloVars == <<h_call, h_ret, h_evals>>

vars == <<diskVars, intVars, fldVars, gridVars, haloVars>>

(***************************************************************************)
(* core/disk.py: sample points and special functions in fixed point.       *)
(***************************************************************************)
\* ri = 2r: r in {0, 1/2, 1}, the integration range of r
RPts == {0, 1, 2}
\* zi = 2z: z in {-3/2, .., 3/2}; the integration range of z is [-1, 1]
ZPts == -3..3
ZRange == {zi \in ZPts : zi >= -2 /\ zi <= 2}

\* the n-th zero of J1 (jn_zeros(1, n)), in tenths: 3.83, 7.02, 10.17
JnZeros == <<38, 70, 102>>
Kns == 1..3

\* 10*j0(kn*r), 10*j1(kn*r), 10*jv(2, kn*r) at r = 0, 1/2, 1 for the three zeros
J0T == << <<10, 3, -4>>, <<10, -4, 3>>, <<10, -1, -2>> >>
J1T == << <<0, 6, 0>>, <<0, 1, 0>>, <<0, -3, 0>> >>
J2T == << <<0, 3, 4>>, <<0, 5, -3>>, <<0, 0, 2>> >>
j0(kn, ri) == J0T[kn][ri + 1]
j1(kn, ri) == J1T[kn][ri + 1]
jv2(kn, ri) == J2T[kn][ri + 1]

\* 10*cos(pi*z/2), 10*cos(3*pi*z/2), 10*sin(pi*z/2), 10*sin(3*pi*z/2), z = zi/2
CosT  == <<-7, 0, 7, 10, 7, 0, -7>>
Cos3T == <<7, 0, -7, 10, -7, 0, 7>>
SinT  == <<-7, -10, -7, 0, 7, 10, 7>>
Sin3T == <<-7, 10, -7, 0, 7, -10, 7>>
cosHalfPi(zi)  == CosT[zi + 4]
cos3HalfPi(zi) == Cos3T[zi + 4]
sinHalfPi(zi)  == SinT[zi + 4]
sin3HalfPi(zi) == Sin3T[zi + 4]

\* fixed-point division, truncating toward zero
Quot(a, b) == IF a >= 0 THEN a \div b ELSE -((-a) \div b)

\* the integer square root
RECURSIVE IsqrtFrom(_, _)
IsqrtFrom(n, k) == IF (k + 1) * (k + 1) > n THEN k ELSE IsqrtFrom(n, k + 1)
Isqrt(n) == IsqrtFrom(n, 0)

(***************************************************************************)
(* Parameter sets.  A parameter set is a dictionary; the disk field reads  *)
(* Ralpha_d and D_d (D_d < 0), get_B_disk_cyl reads Cn_d, get_B_disk reads *)
(* R_d and h_d.  A dictionary without D_d makes p['D_d'] raise KeyError.   *)
(***************************************************************************)
Coefficients ==
    {[i \in 1..m |-> i] : m \in 0..NModes} \cup {[i \in 1..NModes |-> i - 3]}

FieldParams ==
    { [Ralpha_d |-> 1, D_d |-> -1],
      [Ralpha_d |-> 2, D_d |-> -1],
      [Ralpha_d |-> 1, D_d |-> -4] }
BadParams == { [Ralpha_d |-> 1] }
Params == FieldParams \cup BadParams

HasFieldKeys(p) == {"Ralpha_d", "D_d"} \subseteq DOMAIN p

\* get_B_disk_cyl_unnormalized (disk.py 34-62), in tenths.
\* sqrt(-D) is exact for D in {-1, -4}; 4*pi^1.5 = 22.3; 10*sqrt(1/pi) = 5.6
unnorm_Br(ri, zi, kn, p) ==
    LET s == Isqrt(-p.D_d) IN
    Quot(p.Ralpha_d * j1(kn, ri)
       * (cosHalfPi(zi) + Quot(3 * cos3HalfPi(zi), 22 * s)), 10)

unnorm_Bphi(ri, zi, kn, p) ==
    LET s == Isqrt(-p.D_d) IN
    Quot(-2 * j1(kn, ri) * (56 * s) * cosHalfPi(zi), 1000)

unnorm_Bz(ri, zi, kn, p) ==
    LET s == Isqrt(-p.D_d)
        rad == j1(kn, ri)
                 + Quot(JnZeros[kn] * ri * (j0(kn, ri) - jv2(kn, ri)), 40)
    IN  Quot(-2 * p.Ralpha_d * 10 * rad
               * (sinHalfPi(zi) + Quot(sin3HalfPi(zi), 22 * s)), 314)

get_B_disk_cyl_unnormalized(ri, zi, kn, p) ==
    [Br   |-> unnorm_Br(ri, zi, kn, p),
     Bphi |-> unnorm_Bphi(ri, zi, kn, p),
     Bz   |-> unnorm_Bz(ri, zi, kn, p)]

\* __intregrand_compute_normalization (disk.py 64-67): r * Br*Br + Bphi*Bphi
\* + Bz*Bz, with r = ri/2; in hundredths.
IntegrandOf(ri, B) ==
    (ri * B.Br * B.Br) \div 2 + B.Bphi * B.Bphi + B.Bz * B.Bz

intregrand_compute_normalization(ri, phi, zi, kn, p) ==
    IntegrandOf(ri, get_B_disk_cyl_unnormalized(ri, zi, kn, p))

\* nquad over r in [0,1], phi in [0, 2 pi], z in [-1,1] (disk.py 78-86): the
\* sum of the integrand over the sample points, times the cell volume
\* (1/2)*(2 pi)*(1/2).  The integrand does not depend on phi.
RECURSIVE SumOver(_, _, _)
SumOver(S, kn, p) ==
    IF S = {} THEN 0
    ELSE LET pt == CHOOSE q \in S : TRUE
         IN  intregrand_compute_normalization(pt[1], 0, pt[2], kn, p)
               + SumOver(S \ {pt}, kn, p)

nquad(kn, p) == (63 * SumOver(RPts \X ZRange, kn, p)) \div 40

\* tmp[0]**(-0.5) (disk.py 89): in thousandths, tmp being in hundredths
InvSqrt(integral) == 10000 \div Isqrt(integral)

\* compute_normalization (disk.py 69-89), the value it returns
compute_normalization_value(kn, p) == InvSqrt(nquad(kn, p))

NoArgs == [ri |-> 0, phi |-> 0, zi |-> 0, kn |-> 0, p |-> << >>]
NoRet == [kind |-> "none"]
Raised(e) == [kind |-> "raise", error |-> e]
Returned(v) == [kind |-> "return", value |-> v]

\* the wavenumbers, the sample point (r = 1/2, z = 1/2) and the parameter sets
\* the threads call the component with
CallKns == {1, 2}
CallPts == {<<1, 1>>}
CallParams ==
    { [Ralpha_d |-> 1, D_d |-> -1], [Ralpha_d |-> 2, D_d |-> -1] } \cup BadParams

\* a lookup that never finds the key
InCacheNever(kn) == FALSE

\* `kn not in B_norm` (disk.py 103)
InCache(kn) == kn \in DOMAIN B_norm

\* B_norm[kn] = value (disk.py 104)
StoreIn(cache, kn, v) ==
    [k \in DOMAIN cache \cup {kn} |-> IF k = kn THEN v ELSE cache[k]]

\* an acquire that does not wait for the lock
CanAcquireAlways == TRUE

\* lock.acquire() goes through only when the lock is free (disk.py 84)
CanAcquire == lock = NoThread

InFlight(t) == pc[t] \notin {"idle", "done"}

\* what the steps of the threads leave alone
notDisk == <<intVars, fldVars, gridVars, haloVars>>

(***************************************************************************)
(* get_B_disk_cyl_component (disk.py 92-108), one step per statement that  *)
(* another thread can observe.                                             *)
(***************************************************************************)
\* a thread calls get_B_disk_cyl_component(r, phi, z, kn, p)
Call(t, pt, kn, p) ==
    /\ ~InFlight(t)
    /\ ncalls < MaxCalls
    /\ ncalls' = ncalls + 1
    /\ pc' = [pc EXCEPT ![t] = "check"]
    /\ args' = [args EXCEPT ![t] =
                   [ri |-> pt[1], phi |-> 0, zi |-> pt[2], kn |-> kn, p |-> p]]
    /\ tmp' = [tmp EXCEPT ![t] = 0]
    /\ reads' = [reads EXCEPT ![t] = << >>]
    /\ ret' = [ret EXCEPT ![t] = NoRet]
    /\ cachedAtCall' = [cachedAtCall EXCEPT ![t] = kn \in DOMAIN B_norm]
    /\ UNCHANGED <<B_norm, lock, nquadCalls>>
    /\ UNCHANGED notDisk

\* disk.py 103: if kn not in B_norm
CheckCache(t) ==
    /\ pc[t] = "check"
    /\ pc' = [pc EXCEPT ![t] = IF InCache(args[t].kn) THEN "unnorm" ELSE "acquire"]
    /\ UNCHANGED <<B_norm, lock, args, tmp, reads, ret, ncalls, nquadCalls,
                   cachedAtCall>>
    /\ UNCHANGED notDisk

\* disk.py 84: lock.acquire(); the thread then enters nquad
Acquire(t) ==
    /\ pc[t] = "acquire"
    /\ CanAcquire
    /\ lock' = t
    /\ pc' = [pc EXCEPT ![t] = "nquad"]
    /\ nquadCalls' = [nquadCalls EXCEPT ![args[t].kn] = @ + 1]
    /\ UNCHANGED <<B_norm, args, tmp, reads, ret, ncalls, cachedAtCall>>
    /\ UNCHANGED notDisk

\* disk.py 85-86: nquad returns the integral
NquadReturns(t) ==
    /\ pc[t] = "nquad"
    /\ HasFieldKeys(args[t].p)
    /\ tmp' = [tmp EXCEPT ![t] = nquad(args[t].kn, args[t].p)]
    /\ pc' = [pc EXCEPT ![t] = "release"]
    /\ UNCHANGED <<B_norm, lock, args, reads, ret, ncalls, nquadCalls,
                   cachedAtCall>>
    /\ UNCHANGED notDisk

\* disk.py 85-86: the integrand raises (p['D_d'], disk.py 49); the exception
\* leaves compute_normalization and get_B_disk_cyl_component, and
\* lock.release() (disk.py 87) is not reached
NquadRaises(t) ==
    /\ pc[t] = "nquad"
    /\ ~HasFieldKeys(args[t].p)
    /\ ret' = [ret EXCEPT ![t] = Raised("KeyError")]
    /\ pc' = [pc EXCEPT ![t] = "done"]
    /\ UNCHANGED <<B_norm, lock, args, tmp, reads, ncalls, nquadCalls,
                   cachedAtCall>>
    /\ UNCHANGED notDisk

\* disk.py 87: lock.release()
Release(t) ==
    /\ pc[t] = "release"
    /\ lock' = NoThread
    /\ pc' = [pc EXCEPT ![t] = "store"]
    /\ UNCHANGED <<B_norm, args, tmp, reads, ret, ncalls, nquadCalls,
                   cachedAtCall>>
    /\ UNCHANGED notDisk

\* disk.py 89 and 104: B_norm[kn] = tmp[0]**(-0.5)
Store(t) ==
    /\ pc[t] = "store"
    /\ B_norm' = StoreIn(B_norm, args[t].kn, InvSqrt(tmp[t]))
    /\ pc' = [pc EXCEPT ![t] = "unnorm"]
    /\ UNCHANGED <<lock, args, tmp, reads, ret, ncalls, nquadCalls,
                   cachedAtCall>>
    /\ UNCHANGED notDisk

\* disk.py 106: get_B_disk_cyl_unnormalized(r, phi, z, kn, p)
Unnormalized(t) ==
    /\ pc[t] = "unnorm"
    /\ IF HasFieldKeys(args[t].p)
       THEN /\ pc' = [pc EXCEPT ![t] = "read"]
            /\ ret' = ret
       ELSE /\ pc' = [pc EXCEPT ![t] = "done"]
            /\ ret' = [ret EXCEPT ![t] = Raised("KeyError")]
    /\ UNCHANGED <<B_norm, lock, args, tmp, reads, ncalls, nquadCalls,
                   cachedAtCall>>
    /\ UNCHANGED notDisk

\* the tuple built at disk.py 108 from the three values read from B_norm[kn]
ComponentResult(a, f) ==
    LET B == get_B_disk_cyl_unnormalized(a.ri, a.zi, a.kn, a.p)
    IN  [Br |-> f[1] * B.Br, Bphi |-> f[2] * B.Bphi, Bz |-> f[3] * B.Bz]

\* disk.py 108: B_norm[kn] is read three times, once per component; the
\* third read completes the returned tuple
ReadNorm(t) ==
    /\ pc[t] = "read"
    /\ LET f == Append(reads[t], B_norm[args[t].kn])
       IN  /\ reads' = [reads EXCEPT ![t] = f]
           /\ IF Len(f) = 3
              THEN /\ pc' = [pc EXCEPT ![t] = "done"]
                   /\ ret' = [ret EXCEPT ![t] = Returned(ComponentResult(args[t], f))]
              ELSE /\ pc' = pc
                   /\ ret' = ret
    /\ UNCHANGED <<B_norm, lock, args, tmp, ncalls, nquadCalls, cachedAtCall>>
    /\ UNCHANGED notDisk

ThreadStep(t) ==
    \/ \E pt \in CallPts, kn \in CallKns, p \in CallParams : Call(t, pt, kn, p)
    \/ CheckCache(t)
    \/ Acquire(t)
    \/ NquadReturns(t)
    \/ NquadRaises(t)
    \/ Release(t)
    \/ Store(t)
    \/ Unnormalized(t)
    \/ ReadNorm(t)

NextDisk == \E t \in Threads : ThreadStep(t)

\* calls made one after the other: a call starts only when no call is in flight
SeqCall(t, pt, kn, p) ==
    /\ \A u \in Threads : ~InFlight(u)
    /\ Call(t, pt, kn, p)

NextDiskSeq ==
    \E t \in Threads :
        \/ \E pt \in CallPts, kn \in CallKns, p \in CallParams : SeqCall(t, pt, kn, p)
        \/ CheckCache(t)
        \/ Acquire(t)
        \/ NquadReturns(t)
        \/ NquadRaises(t)
        \/ Release(t)
        \/ Store(t)
        \/ Unnormalized(t)
        \/ ReadNorm(t)

(***************************************************************************)
(* The integrand on its own: one evaluation at one point.                  *)
(***************************************************************************)
IntegrandInputs == [ri : RPts, phi : 0..3, zi : ZRange, kn : Kns, p : Params]

\* nquad evaluates __intregrand_compute_normalization(r, phi, z, kn, p)
\* (disk.py 64-67)
EvalIntegrand(a) ==
    /\ ig_args' = a
    /\ ig_val' =
         IF HasFieldKeys(a.p)
         THEN Returned(intregrand_compute_normalization(a.ri, a.phi, a.zi, a.kn, a.p))
         ELSE Raised("KeyError")
    /\ UNCHANGED <<diskVars, fldVars, gridVars, haloVars>>

NextIntegrand == \E a \in IntegrandInputs : EvalIntegrand(a)

(***************************************************************************)
(* get_B_disk_cyl and get_B_disk (disk.py 111-173), called one at a time   *)
(* on arrays.  An array of sample points is the set of its points, a       *)
(* field array a function on them.                                         *)
(***************************************************************************)
Abs(n) == IF n < 0 THEN -n ELSE n

\* parameter sets of the field calls: the field keys, Cn_d, R_d and h_d
DiskParams ==
    {[Ralpha_d |-> 1, D_d |-> -1, Cn_d |-> cs, R_d |-> 1, h_d |-> 1] :
        cs \in Coefficients}
      \cup
    {[Ralpha_d |-> 2, D_d |-> -4, Cn_d |-> cs, R_d |-> 1, h_d |-> 2] :
        cs \in Coefficients}
      \cup
    {[Ralpha_d |-> 1, Cn_d |-> <<1, 2>>, R_d |-> 1, h_d |-> 1]}

\* the arrays r, phi, z given to get_B_disk_cyl: points <<ri, zi>>
CylArrays == {RPts \X ZPts}

\* the array r given to get_B_disk with parameters p: points <<x, y, z>> on
\* the x and y axes, x and y in halves of R_d, z in halves (of length units)
CartArray(p) ==
    {<<x, y, z>> \in (-1..1) \X (-1..1) \X (-6..6) :
        /\ x = 0 \/ y = 0
        /\ z % p.h_d = 0
        /\ Abs(z) <= 3 * p.h_d}

ZeroB == [Br |-> 0, Bphi |-> 0, Bz |-> 0]

\* the mask that also covers |z| = 1
OutsideOrOn(zi) == Abs(zi) >= 2

\* abs(z) > 1 (disk.py 134-136), z = zi/2
Outside(zi) == Abs(zi) > 2

\* One pass of the loop of get_B_disk_cyl (disk.py 126-131) for mode i, with
\* the call of get_B_disk_cyl_component it makes (disk.py 99-108, 83-89).
\* st: the cache, the lock, the integration counts, the sums so far and the
\* status of the call.
LoopBody(st, i, pts, p) ==
    LET kn == i
        Cn == p.Cn_d[i]
        miss == kn \notin DOMAIN st.cache
    IN  IF miss /\ st.lock # NoThread
        THEN [st EXCEPT !.status = "blocked"]
        ELSE IF ~HasFieldKeys(p)
        THEN [st EXCEPT !.status = "KeyError",
                        !.lock = IF miss THEN 1 ELSE @,
                        !.count = IF miss THEN [@ EXCEPT ![kn] = @ + 1] ELSE @]
        ELSE
          LET cache2 == IF miss
                        THEN StoreIn(st.cache, kn, InvSqrt(nquad(kn, p)))
                        ELSE st.cache
              norm == cache2[kn]
              comp(pt) == ComponentResult(
                              [ri |-> pt[1], phi |-> 0, zi |-> pt[2], kn |-> kn, p |-> p],
                              <<norm, norm, norm>>)
          IN  [st EXCEPT
                 !.cache = cache2,
                 !.count = IF miss THEN [@ EXCEPT ![kn] = @ + 1] ELSE @,
                 !.B = [pt \in pts |->
                          LET old == IF i = 1 THEN ZeroB ELSE st.B[pt]
                          IN  [Br   |-> old.Br + Cn * comp(pt).Br,
                               Bphi |-> old.Bphi + Cn * comp(pt).Bphi,
                               Bz   |-> old.Bz + Cn * comp(pt).Bz]]]

\* the loop over the modes, from mode i on
RECURSIVE Loop(_, _, _, _)
Loop(st, i, pts, p) ==
    IF i > Len(p.Cn_d) \/ st.status # "ok" THEN st
    ELSE Loop(LoopBody(st, i, pts, p), i + 1, pts, p)

\* get_B_disk_cyl(r, phi, z, p) (disk.py 111-138) run from state st
get_B_disk_cyl(st, pts, p) ==
    LET end == Loop(st, 1, pts, p)
    IN  IF end.status # "ok" THEN end
        ELSE IF Len(p.Cn_d) = 0
        THEN [end EXCEPT !.status = "UnboundLocalError"]
        ELSE [end EXCEPT !.B = [pt \in pts |->
                                  IF Outside(pt[2]) THEN ZeroB ELSE end.B[pt]]]

StartState ==
    [cache |-> B_norm, lock |-> lock, count |-> nquadCalls, B |-> << >>,
     status |-> "ok"]

Outcome(end, value) ==
    IF end.status = "ok" THEN Returned(value)
    ELSE IF end.status = "blocked" THEN [kind |-> "blocked"]
    ELSE Raised(end.status)

\* a call of get_B_disk_cyl on arrays
CallGetBDiskCyl(pts, p) ==
    /\ fld_ret.kind # "blocked"
    /\ LET end == get_B_disk_cyl(StartState, pts, p)
       IN  /\ B_norm' = end.cache
           /\ lock' = end.lock
           /\ nquadCalls' = end.count
           /\ fld_ret' = Outcome(end, end.B)
    /\ fld_call' = [entry |-> "get_B_disk_cyl", pts |-> pts, p |-> p]
    /\ UNCHANGED <<threadVars, intVars, gridVars, haloVars>>

\* cos and sin of phi = arctan2(y, x) for a point of the x or the y axis
CosPhi(x, y) == IF y = 0 THEN (IF x < 0 THEN -1 ELSE 1) ELSE 0
SinPhi(x, y) == IF y = 0 THEN 0 ELSE (IF y < 0 THEN -1 ELSE 1)

\* the dimensionless cylindrical point of a cartesian point (disk.py 152-158):
\* sqrt(x^2 + y^2) = |x| + |y| on the axes
CylPoint(c, p) == <<Quot(Abs(c[1]) + Abs(c[2]), p.R_d), Quot(c[3], p.h_d)>>

\* a call of get_B_disk on an array (disk.py 141-173)
CallGetBDisk(cpts, p) ==
    /\ fld_ret.kind # "blocked"
    /\ LET pts == {CylPoint(c, p) : c \in cpts}
           end == get_B_disk_cyl(StartState, pts, p)
           B == [c \in cpts |->
                   LET b == end.B[CylPoint(c, p)]
                   IN  <<b.Br * CosPhi(c[1], c[2]) - b.Bphi * SinPhi(c[1], c[2]),
                         b.Br * SinPhi(c[1], c[2]) + b.Bphi * CosPhi(c[1], c[2]),
                         b.Bz>>]
       IN  /\ B_norm' = end.cache
           /\ lock' = end.lock
           /\ nquadCalls' = end.count
           /\ fld_ret' = IF end.status = "ok" THEN Returned(B) ELSE Outcome(end, << >>)
    /\ fld_call' = [entry |-> "get_B_disk", pts |-> cpts, p |-> p]
    /\ UNCHANGED <<threadVars, intVars, gridVars, haloVars>>

NextField ==
    \/ \E p \in DiskParams, pts \in CylArrays : CallGetBDiskCyl(pts, p)
    \/ \E p \in DiskParams : CallGetBDisk(CartArray(p), p)

(***************************************************************************)
(* galmag/Grid.py.  Coordinates are exact reals s*sqrt(num/den) together   *)
(* with the IEEE values NaN (0/0) and inf (x/0) that numpy produces        *)
(* instead of raising.  Lengths are integers; the angles of a spherical or *)
(* cylindrical grid are multiples of pi/2 (q quarter turns); arccos and    *)
(* arctan2 yield the angle with that cosine, resp. of that direction.      *)
(***************************************************************************)
RECURSIVE Gcd(_, _)
Gcd(a, b) == IF b = 0 THEN a ELSE Gcd(b, a % b)

NaN == [kind |-> "nan"]
Inf(s) == [kind |-> "inf", sgn |-> s]
Sign(i) == IF i > 0 THEN 1 ELSE IF i < 0 THEN -1 ELSE 0

\* s*sqrt(n/d), in lowest terms
Fin(s, n, d) ==
    IF n = 0 THEN [kind |-> "fin", sgn |-> 0, num |-> 0, den |-> 1]
    ELSE LET g == Gcd(n, d)
         IN  [kind |-> "fin", sgn |-> s, num |-> n \div g, den |-> d \div g]

FromInt(i) == Fin(Sign(i), i * i, 1)
\* np.sqrt of a non-negative integer
SqrtOf(n) == Fin(1, n, 1)
IsZero(a) == a.kind = "fin" /\ a.num = 0

Mul(a, b) ==
    IF a.kind = "nan" \/ b.kind = "nan" THEN NaN
    ELSE IF a.kind = "inf" \/ b.kind = "inf"
    THEN IF IsZero(a) \/ IsZero(b) THEN NaN ELSE Inf(a.sgn * b.sgn)
    ELSE Fin(a.sgn * b.sgn, a.num * b.num, a.den * b.den)

Div(a, b) ==
    IF a.kind = "nan" \/ b.kind = "nan" THEN NaN
    ELSE IF a.kind = "inf"
    THEN IF b.kind = "inf" THEN NaN ELSE Inf(IF IsZero(b) THEN a.sgn ELSE a.sgn * b.sgn)
    ELSE IF b.kind = "inf" THEN FromInt(0)
    ELSE IF IsZero(b) THEN (IF IsZero(a) THEN NaN ELSE Inf(a.sgn))
    ELSE Fin(a.sgn * b.sgn, a.num * b.den, a.den * b.num)

\* the square of a coordinate (an integer for every finite coordinate here)
Square(a) == IF a.kind = "fin" THEN Fin(1, a.num * a.num, a.den * a.den) ELSE
             IF a.kind = "inf" THEN Inf(1) ELSE NaN
\* the sum of two squares, each as Square yields it
AddSq(a, b) ==
    IF a.kind = "nan" \/ b.kind = "nan" THEN NaN
    ELSE IF a.kind = "inf" \/ b.kind = "inf" THEN Inf(1)
    ELSE LET n == Isqrt(a.num) * Isqrt(b.den) + Isqrt(b.num) * Isqrt(a.den)
             d == Isqrt(a.den) * Isqrt(b.den)
         IN  Fin(1, n * n, d * d)

\* angles
Quarter(q) == [kind |-> "quarter", q |-> q]
NaNAngle == [kind |-> "nan"]
\* np.arccos: NaN outside [-1, 1] and for NaN
ArcCos(c) == IF c.kind = "fin" /\ c.num <= c.den THEN [kind |-> "arccos", cos |-> c]
             ELSE NaNAngle
\* np.arctan2(y, x): defined for every finite pair, arctan2(0, 0) = 0
ArcTan2(y, x) == [kind |-> "arctan2", y |-> y, x |-> x]

CosQ(q) == <<1, 0, -1, 0>>[(q % 4) + 1]
SinQ(q) == <<0, 1, 0, -1>>[(q % 4) + 1]
Norm2(x, y) == SqrtOf(x.num + y.num)
Cos(a) ==
    IF a.kind = "quarter" THEN FromInt(CosQ(a.q))
    ELSE IF a.kind = "arccos" THEN a.cos
    ELSE IF a.kind = "arctan2"
    THEN (IF IsZero(a.x) /\ IsZero(a.y) THEN FromInt(1) ELSE Div(a.x, Norm2(a.x, a.y)))
    ELSE NaN
Sin(a) ==
    IF a.kind = "quarter" THEN FromInt(SinQ(a.q))
    ELSE IF a.kind = "arccos" THEN Fin(1, a.cos.den - a.cos.num, a.cos.den)
    ELSE IF a.kind = "arctan2"
    THEN (IF IsZero(a.x) /\ IsZero(a.y) THEN FromInt(0) ELSE Div(a.y, Norm2(a.x, a.y)))
    ELSE NaN

None == [none |-> TRUE]
NoGrid == [exists |-> FALSE]

ValidGridTypes == {"cartesian", "spherical", "cylindrical"}
GridTypes == ValidGridTypes \cup {"polar"}
\* the limits of an axis: lengths, or quarter turns for an angle
AxisLimits == {<<0, 2>>, <<-2, 2>>}
Boxes == {[axis \in 1..3 |-> lim] : lim \in AxisLimits}
           \cup {<< <<0, 2>>, <<-2, 2>>, <<0, 2>> >>}
Resolutions == [1..3 -> 1..MaxRes]
CoordinateNames ==
    {"x", "y", "z", "r_spherical", "r_cylindrical", "theta", "phi"}

\* Grid(box, resolution, grid_type) (Grid.py 43-54)
Construct(box, resolution, grid_type) ==
    /\ grid' = [exists |-> TRUE, box |-> box, resolution |-> resolution,
                grid_type |-> grid_type, coordinates |-> None]
    /\ gen_count' = 0
    /\ g_ret' = NoRet
    /\ UNCHANGED <<diskVars, intVars, fldVars, haloVars>>

\* np.mgrid[slice(a, b, n*1j)] along one axis: n evenly spaced samples from a
\* to b, both ends included (Grid.py 128-132)
Linspace(lim, n, k) ==
    IF n = 1 THEN lim[1] ELSE lim[1] + ((k - 1) * (lim[2] - lim[1])) \div (n - 1)

Indices(g) == (1..g.resolution[1]) \X (1..g.resolution[2]) \X (1..g.resolution[3])

local_coordinates(g, axis, idx) ==
    Linspace(g.box[axis], g.resolution[axis], idx[axis])

\* get_prototype (Grid.py 208-209): an uninitialized array
get_prototype(g) == [idx \in Indices(g) |-> [kind |-> "uninitialized"]]

\* Grid.py 134-149
cartesian_point(c) ==
    LET x == FromInt(c[1])
        y == FromInt(c[2])
        z == FromInt(c[3])
        x2y2 == c[1] * c[1] + c[2] * c[2]
        r_sph == SqrtOf(x2y2 + c[3] * c[3])
    IN  [x |-> x, y |-> y, z |-> z,
         r_spherical |-> r_sph,
         r_cylindrical |-> SqrtOf(x2y2),
         theta |-> ArcCos(Div(z, r_sph)),
         phi |-> ArcTan2(y, x)]

\* Grid.py 151-171
spherical_point(c) ==
    LET r == FromInt(c[1])
        theta == Quarter(c[2])
        phi == Quarter(c[3])
    IN  [x |-> Mul(Mul(r, Sin(theta)), Cos(phi)),
         y |-> Mul(Mul(r, Sin(theta)), Sin(phi)),
         z |-> Mul(r, Cos(theta)),
         r_spherical |-> r,
         r_cylindrical |-> Mul(r, Sin(theta)),
         theta |-> theta,
         phi |-> phi]

\* Grid.py 173-192
cylindrical_point(c) ==
    LET s == FromInt(c[1])
        phi == Quarter(c[2])
        z == FromInt(c[3])
        r_sph == SqrtOf(c[1] * c[1] + c[3] * c[3])
    IN  [x |-> Mul(s, Cos(phi)),
         y |-> Mul(s, Sin(phi)),
         z |-> z,
         r_spherical |-> r_sph,
         r_cylindrical |-> s,
         theta |-> ArcCos(Div(z, r_sph)),
         phi |-> phi]

PointOf(g, idx) ==
    LET c == [axis \in 1..3 |-> local_coordinates(g, axis, idx)]
    IN  IF g.grid_type = "cartesian" THEN cartesian_point(c)
        ELSE IF g.grid_type = "spherical" THEN spherical_point(c)
        ELSE cylindrical_point(c)

\* the seven arrays of a grid of a known type (Grid.py 198-206)
result_dict(g) ==
    [name \in CoordinateNames |-> [idx \in Indices(g) |-> PointOf(g, idx)[name]]]

\* a generation that lets an unknown grid_type through with the prototypes
generate_unchecked(g) ==
    IF g.grid_type \in ValidGridTypes
    THEN Returned(result_dict(g))
    ELSE Returned([name \in CoordinateNames |-> get_prototype(g)])

\* _generate_coordinates (Grid.py 118-206): the dictionary, or ValueError for
\* any other grid_type (Grid.py 194-195)
generate_coordinates(g) ==
    IF g.grid_type \in ValidGridTypes
    THEN Returned(result_dict(g))
    ELSE Raised("ValueError")

\* a check that finds the cache empty every time
NeedsGenerateAlways(g) == TRUE

\* `self._coordinates is None` (Grid.py 59)
NeedsGenerate(g) == g.coordinates = None

\* the property `coordinates` (Grid.py 56-61) read on g: the object after
\* the read, the count of generations and the outcome
coordinates(g, n) ==
    IF NeedsGenerate(g)
    THEN LET gen == generate_coordinates(g)
         IN  IF gen.kind = "return"
             THEN [g |-> [g EXCEPT !.coordinates = gen.value], n |-> n + 1, out |-> gen]
             ELSE [g |-> g, n |-> n, out |-> gen]
    ELSE [g |-> g, n |-> n, out |-> Returned(g.coordinates)]

\* the property `coordinates` is read
GetCoordinates ==
    /\ grid.exists
    /\ LET c == coordinates(grid, gen_count)
       IN  /\ grid' = c.g
           /\ gen_count' = c.n
           /\ g_ret' = c.out
    /\ UNCHANGED <<diskVars, intVars, fldVars, haloVars>>

\* self.coordinates[name] (Grid.py 63-96)
Property(name) ==
    /\ grid.exists
    /\ LET c == coordinates(grid, gen_count)
       IN  /\ grid' = c.g
           /\ gen_count' = c.n
           /\ g_ret' = IF c.out.kind = "return"
                       THEN Returned(c.out.value[name]) ELSE c.out
    /\ UNCHANGED <<diskVars, intVars, fldVars, haloVars>>

Get_x == Property("x")
Get_y == Property("y")
Get_z == Property("z")
Get_r_spherical == Property("r_spherical")
Get_r_cylindrical == Property("r_cylindrical")
Get_theta == Property("theta")
Get_phi == Property("phi")

\* self.<a> / self.<b> (Grid.py 98-116): two property reads, then the
\* elementwise division
RatioProperty(a, b) ==
    /\ grid.exists
    /\ LET c1 == coordinates(grid, gen_count)
           c2 == coordinates(c1.g, c1.n)
       IN  IF c1.out.kind # "return"
           THEN /\ grid' = c1.g
                /\ gen_count' = c1.n
                /\ g_ret' = c1.out
           ELSE /\ grid' = c2.g
                /\ gen_count' = c2.n
                /\ g_ret' = Returned([idx \in Indices(grid) |->
                                Div(c1.out.value[a][idx], c2.out.value[b][idx])])
    /\ UNCHANGED <<diskVars, intVars, fldVars, haloVars>>

Get_sin_theta == RatioProperty("r_cylindrical", "r_spherical")
Get_cos_theta == RatioProperty("z", "r_spherical")
Get_sin_phi == RatioProperty("y", "r_cylindrical")
Get_cos_phi == RatioProperty("x", "r_cylindrical")

NextGrid ==
    \/ \E box \in Boxes, resolution \in Resolutions, grid_type \in GridTypes :
          Construct(box, resolution, grid_type)
    \/ GetCoordinates
    \/ Get_x \/ Get_y \/ Get_z
    \/ Get_r_spherical \/ Get_r_cylindrical
    \/ Get_theta \/ Get_phi
    \/ Get_sin_theta \/ Get_cos_theta
    \/ Get_sin_phi \/ Get_cos_phi

(***************************************************************************)
(* gmf_tool/B_generators/halo_free_decay_modes.py: get_mode.  The field a  *)
(* mode function returns is kept as the application of its closed form to  *)
(* the coordinates with the constants C and k.                             *)
(***************************************************************************)
Field(form, C, k, pt) == [form |-> form, C |-> C, k |-> k, at |-> pt]

\* the mode functions with C and k given (halo_free_decay_modes.py 12-261);
\* each yields the names of the functions evaluated and the field
get_B_a_1_with(pt, C, k) ==
    [evals |-> <<"get_B_a_1">>, B |-> Field("a_1", C, k, pt)]
get_B_a_1(pt) == get_B_a_1_with(pt, "0.346", "pi")
get_B_a_2(pt) == [evals |-> <<"get_B_a_2">>, B |-> Field("a_2", "0.250", "5.763", pt)]
get_B_a_3(pt) == [evals |-> <<"get_B_a_3">>, B |-> Field("a_3", "3.445", "5.763", pt)]
\* get_B_a_4 has the form of the first antisymmetric mode (line 131)
get_B_a_4(pt) ==
    LET inner == get_B_a_1_with(pt, "0.244", "2*pi")
    IN  [evals |-> <<"get_B_a_4">> \o inner.evals, B |-> inner.B]
get_B_s_1(pt) ==
    [evals |-> <<"get_B_s_1">>, B |-> Field("s_1", "0.653646562698", "4.493409457909", pt)]
get_B_s_2(pt) ==
    [evals |-> <<"get_B_s_2">>, B |-> Field("s_2", "1.32984358196", "4.493409457909", pt)]
get_B_s_3(pt) ==
    [evals |-> <<"get_B_s_3">>, B |-> Field("s_3", "0.0169610298034", "6.987932000501", pt)]
get_B_s_4(pt) ==
    [evals |-> <<"get_B_s_4">>, B |-> Field("s_4", "0.539789362061", "6.987932000501", pt)]

\* symmetric_modes_list and antisymmetric_modes_list (lines 268-269), applied
symmetric_modes_list(pt) ==
    <<get_B_s_1(pt), get_B_s_2(pt), get_B_s_3(pt), get_B_s_4(pt)>>
antisymmetric_modes_list(pt) ==
    <<get_B_a_1(pt), get_B_a_2(pt), get_B_a_3(pt), get_B_a_4(pt)>>

\* a guard that also rejects the fourth mode
NotImplementedFrom4(n_mode) == n_mode >= 4

\* `n_mode>4` (line 282)
NotImplemented(n_mode) == n_mode > 4

\* list[i] of a Python list of length n: a negative i counts from the end,
\* an i outside -n..n-1 raises IndexError
ListIndex(i, n) ==
    IF i >= 0 /\ i < n THEN i + 1
    ELSE IF i < 0 /\ i >= -n THEN n + i + 1
    ELSE 0

\* get_mode (lines 272-288)
get_mode(pt, n_mode, symmetric) ==
    IF NotImplemented(n_mode)
    THEN [evals |-> << >>, out |-> Raised("NotImplementedError")]
    ELSE LET modes == IF symmetric THEN symmetric_modes_list(pt)
                      ELSE antisymmetric_modes_list(pt)
             i == ListIndex(n_mode - 1, Len(modes))
         IN  IF i = 0
             THEN [evals |-> << >>, out |-> Raised("IndexError")]
             ELSE [evals |-> modes[i].evals, out |-> Returned(modes[i].B)]

\* sample points <<2r, theta, phi>>, the angles in quarter turns
HaloPts == {<<1, 0, 0>>, <<2, 1, 0>>, <<2, 2, 1>>, <<3, 1, 2>>, <<4, 1, 3>>}

NoHaloCall == [pt |-> <<0, 0, 0>>, n_mode |-> 0, symmetric |-> FALSE]

\* a call of get_mode
CallGetMode(pt, n_mode, symmetric) ==
    /\ h_call' = [pt |-> pt, n_mode |-> n_mode, symmetric |-> symmetric]
    /\ LET res == get_mode(pt, n_mode, symmetric)
       IN  /\ h_ret' = res.out
           /\ h_evals' = res.evals
    /\ UNCHANGED <<diskVars, intVars, fldVars, gridVars>>

NextHalo ==
    \E pt \in HaloPts, n_mode \in (-MaxNMode)..MaxNMode, symmetric \in BOOLEAN :
        CallGetMode(pt, n_mode, symmetric)

(***************************************************************************)
(* Specifications.                                                         *)
(***************************************************************************)
\* the state after the modules are imported: an empty cache, a free lock,
\* no call made and no Grid constructed
Init ==
    /\ B_norm = << >>
    /\ lock = NoThread
    /\ pc = [t \in Threads |-> "idle"]
    /\ args = [t \in Threads |-> NoArgs]
    /\ tmp = [t \in Threads |-> 0]
    /\ reads = [t \in Threads |-> << >>]
    /\ ret = [t \in Threads |-> NoRet]
    /\ ncalls = 0
    /\ nquadCalls = [kn \in Kns |-> 0]
    /\ cachedAtCall = [t \in Threads |-> FALSE]
    /\ ig_args = NoArgs
    /\ ig_val = NoRet
    /\ fld_call = [entry |-> "none"]
    /\ fld_ret = NoRet
    /\ grid = NoGrid
    /\ gen_count = 0
    /\ g_ret = NoRet
    /\ h_call = NoHaloCall
    /\ h_ret = NoRet
    /\ h_evals = << >>

\* threads calling get_B_disk_cyl_component in any interleaving
Spec == Init /\ [][NextDisk]_vars

\* the same calls made one after the other
SpecSeq == Init /\ [][NextDiskSeq]_vars

\* evaluations of the integrand
SpecIntegrand == Init /\ [][NextIntegrand]_vars

\* calls of get_B_disk_cyl and get_B_disk made one after the other
SpecField == Init /\ [][NextField]_vars

\* a Grid is constructed and its properties are read, in any order
SpecGrid == Init /\ [][NextGrid]_vars

\* calls of get_mode
SpecHalo == Init /\ [][NextHalo]_vars

(***************************************************************************)
(* Claims about the normalization cache and the lock.                      *)
(***************************************************************************)
\* C1: over all threads and interleavings, the integration of
\* compute_normalization is entered at most once for each wavenumber kn.
C1_IntegratedAtMostOnce == \A kn \in CallKns : nquadCalls[kn] <= 1

\* C2: with calls made one after the other, a call whose kn was stored by an
\* earlier call never enters compute_normalization, multiplies by the value
\* in B_norm[kn], and no step changes or removes an entry of B_norm.
C2_SecondCallUsesCache ==
    /\ [](\A t \in Threads :
            cachedAtCall[t] =>
              /\ pc[t] \notin {"acquire", "nquad", "release", "store"}
              /\ ret[t].kind = "return" =>
                   \A i \in 1..3 : reads[t][i] = B_norm[args[t].kn])
    /\ [][\A k \in DOMAIN B_norm :
            k \in DOMAIN B_norm' /\ B_norm'[k] = B_norm[k]]_vars

\* a call that found its kn cached has returned its field
C2_Witness ==
    \E t \in Threads :
        /\ cachedAtCall[t]
        /\ ret[t].kind = "return"
        /\ nquadCalls[args[t].kn] = 1

\* C3: the factor a call multiplies the unnormalized mode by is the
\* normalization computed from that call's own parameter set.
C3_FactorIsOwnNormalization ==
    \A t \in Threads :
        ret[t].kind = "return" =>
          \A i \in 1..3 :
            reads[t][i] = compute_normalization_value(args[t].kn, args[t].p)

\* C10: at most one thread is inside nquad, and a thread inside nquad holds
\* the lock.
C10_IntegrationSerialized ==
    /\ Cardinality({t \in Threads : pc[t] = "nquad"}) <= 1
    /\ \A t \in Threads : pc[t] = "nquad" => lock = t

\* one thread integrates while another, with a different kn, waits for the lock
C10_Witness ==
    \E t, u \in Threads :
        /\ pc[t] = "nquad"
        /\ pc[u] = "acquire"
        /\ args[t].kn # args[u].kn

\* C11: the lock is held only by a thread that is between lock.acquire() and
\* lock.release(): whenever no thread is inside the integration the lock is
\* free, in particular after the integration of some thread has raised.
C11_LockFreeOutsideIntegration ==
    lock # NoThread => pc[lock] \in {"nquad", "release"}

(***************************************************************************)
(* Claims about the integrand and the composite field.                     *)
(***************************************************************************)
\* C4: the integrand is r*(Br^2 + Bphi^2 + Bz^2), the volume factor r
\* multiplying the whole sum of the squared components of the unnormalized
\* field at the point (r = ri/2).
C4_IntegrandIsVolumeWeighted ==
    ig_val.kind = "return" =>
      LET B == get_B_disk_cyl_unnormalized(ig_args.ri, ig_args.zi, ig_args.kn,
                                           ig_args.p)
      IN  ig_val.value =
            (ig_args.ri * (B.Br * B.Br + B.Bphi * B.Bphi + B.Bz * B.Bz)) \div 2

\* the sum over the modes 1..m of Cn_d[i] times B_norm[i] times the
\* unnormalized component of mode i at the point pt
RECURSIVE ModeSum(_, _, _, _)
ModeSum(m, comp, pt, p) ==
    IF m = 0 THEN 0
    ELSE p.Cn_d[m] * B_norm[m] * get_B_disk_cyl_unnormalized(pt[1], pt[2], m, p)[comp]
           + ModeSum(m - 1, comp, pt, p)

SumOfModes(pt, p) ==
    [Br   |-> ModeSum(Len(p.Cn_d), "Br", pt, p),
     Bphi |-> ModeSum(Len(p.Cn_d), "Bphi", pt, p),
     Bz   |-> ModeSum(Len(p.Cn_d), "Bz", pt, p)]

\* C5: the field returned by get_B_disk_cyl, and by get_B_disk after the
\* division of z by h_d, is zero at every point with dimensionless |z| > 1 and
\* is the sum over the modes of Cn_d[i] times the normalized mode at every
\* other point.
C5_FieldVanishesOutsideDisk ==
    fld_ret.kind = "return" =>
      LET p == fld_call.p
      IN  IF fld_call.entry = "get_B_disk_cyl"
          THEN \A pt \in fld_call.pts :
                 fld_ret.value[pt] =
                   IF Abs(pt[2]) > 2 THEN ZeroB ELSE SumOfModes(pt, p)
          ELSE \A c \in fld_call.pts :
                 LET pt == <<(Abs(c[1]) + Abs(c[2])) \div p.R_d, c[3] \div p.h_d>>
                     e == SumOfModes(pt, p)
                 IN  fld_ret.value[c] =
                       IF Abs(c[3]) > 2 * p.h_d THEN <<0, 0, 0>>
                       ELSE <<e.Br * CosPhi(c[1], c[2]) - e.Bphi * SinPhi(c[1], c[2]),
                              e.Br * SinPhi(c[1], c[2]) + e.Bphi * CosPhi(c[1], c[2]),
                              e.Bz>>

\* a field of two modes was returned by get_B_disk with h_d = 2; the masking
\* zeroed a point where the sum of the modes is not zero and left a non-zero
\* value at a point with |z| = 1
C5_Witness ==
    /\ fld_ret.kind = "return"
    /\ fld_call.entry = "get_B_disk"
    /\ fld_call.p.h_d = 2
    /\ Len(fld_call.p.Cn_d) = 2
    /\ \E c \in fld_call.pts :
         /\ Abs(c[3]) > 2 * fld_call.p.h_d
         /\ SumOfModes(CylPoint(c, fld_call.p), fld_call.p) # ZeroB
         /\ fld_ret.value[c] = <<0, 0, 0>>
    /\ \E c \in fld_call.pts :
         /\ Abs(c[3]) = 2 * fld_call.p.h_d
         /\ fld_ret.value[c] # <<0, 0, 0>>

(***************************************************************************)
(* Claims about the Grid.                                                  *)
(***************************************************************************)
\* C6: no Grid object with a grid_type outside cartesian, spherical,
\* cylindrical exists after the constructor has returned.
C6_NoGridWithInvalidType ==
    grid.exists => grid.grid_type \in ValidGridTypes

\* C6, amended: a Grid with any other grid_type never holds coordinates, and
\* every access to a coordinate property of it raises ValueError.
C6_InvalidTypeRaisesOnAccess ==
    (grid.exists /\ grid.grid_type \notin ValidGridTypes) =>
        /\ grid.coordinates = None
        /\ gen_count = 0
        /\ g_ret \in {NoRet, Raised("ValueError")}

\* a property of a Grid of unknown type was read and raised
C6_Witness ==
    /\ grid.exists
    /\ grid.grid_type \notin ValidGridTypes
    /\ g_ret = Raised("ValueError")

RatioOf(d, a, b) == [idx \in DOMAIN d[a] |-> Div(d[a][idx], d[b][idx])]

\* what the properties can return from the dictionary d
ReadsOf(d) ==
    {d} \cup {d[name] : name \in CoordinateNames}
        \cup {RatioOf(d, "r_cylindrical", "r_spherical"), RatioOf(d, "z", "r_spherical"),
              RatioOf(d, "y", "r_cylindrical"), RatioOf(d, "x", "r_cylindrical")}

\* C7: on a Grid of a valid type the coordinates are generated exactly once,
\* by the first access, all seven arrays together; every access returns
\* entries of the cached dictionary, and no access changes the cached
\* dictionary, box, resolution or grid_type.
C7_GeneratedOnce ==
    /\ []((grid.exists /\ grid.grid_type \in ValidGridTypes) =>
            /\ gen_count <= 1
            /\ (gen_count = 1) = (grid.coordinates # None)
            /\ (g_ret.kind # "none") = (grid.coordinates # None)
            /\ grid.coordinates # None =>
                 /\ DOMAIN grid.coordinates = CoordinateNames
                 /\ \A name \in CoordinateNames :
                      DOMAIN grid.coordinates[name] = Indices(grid)
                 /\ g_ret.kind = "return"
                 /\ g_ret.value \in ReadsOf(grid.coordinates))
    /\ [][g_ret'.kind # "none" =>
            /\ grid'.box = grid.box
            /\ grid'.resolution = grid.resolution
            /\ grid'.grid_type = grid.grid_type
            /\ grid.coordinates # None =>
                 (grid'.coordinates = grid.coordinates /\ gen_count' = gen_count)]_vars

\* cos_theta was read on a cartesian grid: its first read of the coordinates
\* generated them, its second used the cache
C7_Witness ==
    /\ grid.exists
    /\ grid.grid_type = "cartesian"
    /\ gen_count = 1
    /\ g_ret.kind = "return"
    /\ g_ret.value = RatioOf(grid.coordinates, "z", "r_spherical")

SameReal(a, b) == a.kind = "fin" /\ b.kind = "fin" /\ a = b

\* C9: at every grid point, the origin and the polar axis included,
\* x^2 + y^2 = r_cylindrical^2, x^2 + y^2 + z^2 = r_spherical^2 and
\* z = r_spherical*cos(theta).
C9_CoordinateIdentities ==
    (grid.exists /\ grid.coordinates # None) =>
      \A idx \in Indices(grid) :
        LET d == grid.coordinates
            x2y2 == AddSq(Square(d.x[idx]), Square(d.y[idx]))
        IN  /\ SameReal(x2y2, Square(d.r_cylindrical[idx]))
            /\ SameReal(AddSq(x2y2, Square(d.z[idx])), Square(d.r_spherical[idx]))
            /\ SameReal(d.z[idx], Mul(d.r_spherical[idx], Cos(d.theta[idx])))

(***************************************************************************)
(* Claims about get_mode.                                                  *)
(***************************************************************************)
\* the form and the default C and k of the n-th mode of each list
SymmetricDefaults ==
    << <<"s_1", "0.653646562698", "4.493409457909">>,
       <<"s_2", "1.32984358196", "4.493409457909">>,
       <<"s_3", "0.0169610298034", "6.987932000501">>,
       <<"s_4", "0.539789362061", "6.987932000501">> >>
AntisymmetricDefaults ==
    << <<"a_1", "0.346", "pi">>, <<"a_2", "0.250", "5.763">>,
       <<"a_3", "3.445", "5.763">>, <<"a_1", "0.244", "2*pi">> >>
ModeNames(symmetric) ==
    IF symmetric THEN <<"get_B_s_1", "get_B_s_2", "get_B_s_3", "get_B_s_4">>
    ELSE <<"get_B_a_1", "get_B_a_2", "get_B_a_3", "get_B_a_4">>

\* C8: get_mode with n_mode > 4 raises NotImplementedError, whatever
\* symmetric is, without evaluating a mode function; with n_mode in 1..4 it
\* returns the field of the n_mode-th function of the symmetric list when
\* symmetric holds, of the antisymmetric list otherwise, with that mode's
\* default C and k.
C8_GetModeDispatch ==
    /\ h_call.n_mode > 4 =>
         (h_ret = Raised("NotImplementedError") /\ h_evals = << >>)
    /\ h_call.n_mode \in 1..4 =>
         LET d == IF h_call.symmetric THEN SymmetricDefaults[h_call.n_mode]
                  ELSE AntisymmetricDefaults[h_call.n_mode]
         IN  /\ h_ret = Returned([form |-> d[1], C |-> d[2], k |-> d[3],
                                  at |-> h_call.pt])
             /\ h_evals # << >>
             /\ h_evals[1] = ModeNames(h_call.symmetric)[h_call.n_mode]

\* get_mode was called with n_mode = 5 and symmetric true, and refused
C8_Witness ==
    /\ h_call.n_mode = 5
    /\ h_call.symmetric
    /\ h_ret = Raised("NotImplementedError")
    /\ h_evals = << >>

\* C12: a call of get_mode with n_mode outside 1..4, zero and negative values
\* included, ends with an error, returns no field and evaluates no mode
\* function.
C12_OnlyModes1To4Evaluated ==
    (h_ret # NoRet /\ h_call.n_mode \notin 1..4) =>
        (h_ret.kind = "raise" /\ h_evals = << >>)

====
